---- MODULE Spec2Model ----
(***************************************************************************)
(* markoom: Arabic text processing (processing.py) and the Quran / Surah / *)
(* Ayah data model (core.py, exceptions.py).                               *)
(*                                                                         *)
(* A text is a sequence of Unicode code points.  An XML element is its     *)
(* attribute mapping (a function from attribute names to values); the      *)
(* children of an element are a sequence, in document order.               *)
(***************************************************************************)
EXTENDS Integers, Sequences, FiniteSets, TLC

VARIABLES
    text,       \* the argument handed to a function of processing.py
    ayah,       \* a stand-alone Ayah object (core.py, Ayah.__init__)
    script,     \* Quran.script as requested by the caller
    xml,        \* the <sura> elements of the data file that the loader parses
    file_name,  \* the file name _load_data looked for
    surahs,     \* Quran._surahs
    pc,         \* "new" before Quran.__init__, then "ready" or "failed"
    call,       \* the last call made: <<operation, arguments...>>
    ret         \* what that call returned or raised

vars == <<text, ayah, script, xml, file_name, surahs, pc, call, ret>>

----------------------------------------------------------------------------
(* Bounds *)

MaxLen == 5       \* longest text handed to processing.py functions
MaxRawLen == 4    \* longest raw_text of a stand-alone Ayah
MaxSuras == 3     \* most <sura> elements in a document
MaxAyas == 2      \* most <aya> elements in a <sura>

----------------------------------------------------------------------------
(* Code points *)

SPACE == 32
TAB == 9
WAW == 1608
FA == 1601
SHADDA == 1617
FATHA == 1614
TANWIN_FATH == 1611
DAMMA == 1615
TANWIN_DAMM == 1612
KASRA == 1616
TANWIN_KASR == 1613
SUKUN == 1618
TATWIL == 1600
ALEF == 1575
ALEF_HAMZA_ABOVE == 1571
ALEF_HAMZA_BELOW == 1573
ALEF_MADDA == 1570
TA_MARBUTA == 1577
HA == 1607
ALEF_MAQSURA == 1609
YA == 1610

\* The characters str.split() and str.isspace() treat as whitespace.
Whitespace ==
    {9, 10, 11, 12, 13, 28, 29, 30, 31, 32, 133, 160, 5760}
        \cup (8192 .. 8202) \cup {8232, 8233, 8239, 8287, 12288}

IsSpace(c) == c \in Whitespace

ARABIC_DIACRITICS ==
    {SHADDA, FATHA, TANWIN_FATH, DAMMA, TANWIN_DAMM, KASRA, TANWIN_KASR,
     SUKUN, TATWIL}

ARABIC_NORMALIZATION_MAP ==
    (ALEF_HAMZA_ABOVE :> ALEF) @@ (ALEF_HAMZA_BELOW :> ALEF)
        @@ (ALEF_MADDA :> ALEF) @@ (TA_MARBUTA :> HA) @@ (ALEF_MAQSURA :> YA)

----------------------------------------------------------------------------
(* processing.py *)

\* The pattern with the Shadda alternative left out.
remove_diacritics_no_shadda(t) ==
    SelectSeq(t, LAMBDA c : c \notin (ARABIC_DIACRITICS \ {SHADDA}))

\* re.sub(ARABIC_DIACRITICS, '', text): every match (one character of the
\* alternation) is replaced by the empty string.
remove_diacritics(t) == SelectSeq(t, LAMBDA c : c \notin ARABIC_DIACRITICS)

\* ARABIC_NORMALIZATION_MAP.get(char, char)
MapGet(c) ==
    IF c \in DOMAIN ARABIC_NORMALIZATION_MAP
    THEN ARABIC_NORMALIZATION_MAP[c]
    ELSE c

normalize_arabic(t) == [i \in 1 .. Len(t) |-> MapGet(t[i])]

\* str.split() with no separator: scan left to right, a whitespace character
\* ends the current word, empty words are not emitted.
RECURSIVE SplitScan(_, _, _, _)
SplitScan(t, i, cur, acc) ==
    IF i > Len(t)
    THEN IF cur # <<>> THEN Append(acc, cur) ELSE acc
    ELSE IF IsSpace(t[i])
         THEN SplitScan(t, i + 1, <<>>,
                        IF cur # <<>> THEN Append(acc, cur) ELSE acc)
         ELSE SplitScan(t, i + 1, Append(cur, t[i]), acc)

\* A split on the space character only.
RECURSIVE SplitScanSpaceOnly(_, _, _, _)
SplitScanSpaceOnly(t, i, cur, acc) ==
    IF i > Len(t)
    THEN IF cur # <<>> THEN Append(acc, cur) ELSE acc
    ELSE IF t[i] = SPACE
         THEN SplitScanSpaceOnly(t, i + 1, <<>>,
                                 IF cur # <<>> THEN Append(acc, cur) ELSE acc)
         ELSE SplitScanSpaceOnly(t, i + 1, Append(cur, t[i]), acc)

StrSplitSpaceOnly(t) == SplitScanSpaceOnly(t, 1, <<>>, <<>>)

StrSplit(t) == SplitScan(t, 1, <<>>, <<>>)

\* word.startswith(('و', 'ف'))
StartsWithConjunction(word) == Len(word) >= 1 /\ word[1] \in {WAW, FA}

\* The condition with >= 1 in place of > 1.
SplitsOffAnyLength(word) == Len(word) >= 1 /\ StartsWithConjunction(word)

\* len(word) > 1 and word.startswith(('و', 'ف'))
SplitsOff(word) == Len(word) > 1 /\ StartsWithConjunction(word)

\* The for loop of tokenize over words[i..].
RECURSIVE TokenizeLoop(_, _, _)
TokenizeLoop(words, i, tokens) ==
    IF i > Len(words)
    THEN tokens
    ELSE LET word == words[i] IN
         IF SplitsOff(word)
         THEN TokenizeLoop(words, i + 1,
                           Append(Append(tokens, <<word[1]>>),
                                  SubSeq(word, 2, Len(word))))
         ELSE TokenizeLoop(words, i + 1, Append(tokens, word))

tokenize(t, split_on_wa) ==
    LET words == StrSplit(t) IN
    IF ~split_on_wa THEN words ELSE TokenizeLoop(words, 1, <<>>)

----------------------------------------------------------------------------
(* Results of calls *)

Return(v) == [exc |-> "none", value |-> v]
Raise(e, message) == [exc |-> e, message |-> message]
NoCall == <<"none">>
NoRet == [exc |-> "none"]

----------------------------------------------------------------------------
(* core.py: Ayah *)

Ayah(surah_number, number, t) ==
    [surah_number |-> surah_number, number |-> number, raw_text |-> t]

NoAyah == Ayah(0, 0, <<>>)

\* The two conditions negated.
get_processed_text_inverted(a, normalize, rm_diacritics) ==
    LET t1 == IF ~rm_diacritics THEN remove_diacritics(a.raw_text)
              ELSE a.raw_text
    IN  IF ~normalize THEN normalize_arabic(t1) ELSE t1

get_processed_text(a, normalize, rm_diacritics) ==
    LET t1 == IF rm_diacritics THEN remove_diacritics(a.raw_text)
              ELSE a.raw_text
    IN  IF normalize THEN normalize_arabic(t1) ELSE t1

\* kwargs.get(key, default)
KwGet(kwargs, key, default) ==
    IF key \in DOMAIN kwargs THEN kwargs[key] ELSE default

\* get_processed_text(**kwargs): a keyword the signature does not name is a
\* TypeError raised by the call itself.
get_processed_text_kw(a, kwargs) ==
    IF DOMAIN kwargs \subseteq {"normalize", "remove_diacritics"}
    THEN Return(get_processed_text(a, KwGet(kwargs, "normalize", TRUE),
                                   KwGet(kwargs, "remove_diacritics", TRUE)))
    ELSE Raise("TypeError",
               <<"get_processed_text() got an unexpected keyword argument",
                 CHOOSE k \in DOMAIN kwargs :
                     k \notin {"normalize", "remove_diacritics"}>>)

get_words(a, kwargs) ==
    LET text_to_tokenize ==
            get_processed_text(a, KwGet(kwargs, "normalize", TRUE),
                               KwGet(kwargs, "remove_diacritics", TRUE))
    IN  tokenize(text_to_tokenize, KwGet(kwargs, "split_on_wa", FALSE))

word_count(a, kwargs) == Len(get_words(a, kwargs))

\* processed_text.replace(' ', '')
RemoveSpaces(t) == SelectSeq(t, LAMBDA c : c # SPACE)

letter_count(a, kwargs) ==
    LET processed_text == get_processed_text_kw(a, kwargs) IN
    IF processed_text.exc # "none"
    THEN processed_text
    ELSE Return(Len(RemoveSpaces(processed_text.value)))


\* sum(...) over the per-ayah results rs[i..]: the generator is consumed left
\* to right and the first exception ends it.
RECURSIVE SumLoop(_, _, _)
SumLoop(rs, i, total) ==
    IF i > Len(rs)
    THEN Return(total)
    ELSE IF rs[i].exc # "none" THEN rs[i]
         ELSE SumLoop(rs, i + 1, total + rs[i].value)

----------------------------------------------------------------------------
(* core.py: Surah; exceptions.py *)

Surah(number, name, ayahs) ==
    [number |-> number, name |-> name, ayahs |-> ayahs]

\* f"Invalid Ayah number: {ayah_number} for Surah {surah_number}."
InvalidAyahNumberError(surah_number, ayah_number) ==
    Raise("InvalidAyahNumberError",
          <<"Invalid Ayah number: ", ayah_number, " for Surah ", surah_number,
            ".">>)

\* f"Invalid Surah number: {surah_number}. Must be between 1 and 114."
InvalidSurahNumberError(surah_number) ==
    Raise("InvalidSurahNumberError",
          <<"Invalid Surah number: ", surah_number,
            ". Must be between 1 and 114.">>)

\* f"Quran data file not found at: {file_path}. Please ensure ..."
DataFileError(file_path) ==
    Raise("DataFileError",
          <<"Quran data file not found at: ", file_path,
            ". Please ensure it is correctly placed.">>)

\* list[k] of Python: zero-based, a negative k counts from the end.
ListGet(list, k) ==
    IF 0 <= k /\ k < Len(list) THEN Return(list[k + 1])
    ELSE IF k < 0 /\ -k <= Len(list) THEN Return(list[Len(list) + k + 1])
    ELSE Raise("IndexError", <<"list index out of range">>)

\* The lower bound of the range test off by one.
Surah_get_ayah_from_zero(surah, ayah_number) ==
    IF 0 <= ayah_number /\ ayah_number <= Len(surah.ayahs)
    THEN ListGet(surah.ayahs, ayah_number - 1)
    ELSE InvalidAyahNumberError(surah.number, ayah_number)

\* The index not adjusted to the zero-based list.
Surah_get_ayah_unadjusted(surah, ayah_number) ==
    IF 1 <= ayah_number /\ ayah_number <= Len(surah.ayahs)
    THEN ListGet(surah.ayahs, ayah_number)
    ELSE InvalidAyahNumberError(surah.number, ayah_number)

Surah_get_ayah(surah, ayah_number) ==
    IF 1 <= ayah_number /\ ayah_number <= Len(surah.ayahs)
    THEN ListGet(surah.ayahs, ayah_number - 1)
    ELSE InvalidAyahNumberError(surah.number, ayah_number)

Surah_word_count(surah, kwargs) ==
    SumLoop([i \in 1 .. Len(surah.ayahs) |->
                Return(word_count(surah.ayahs[i], kwargs))], 1, 0)

Surah_letter_count(surah, kwargs) ==
    SumLoop([i \in 1 .. Len(surah.ayahs) |->
                letter_count(surah.ayahs[i], kwargs)], 1, 0)

----------------------------------------------------------------------------
(* core.py: Quran *)

\* int(s) of a string of decimal digits, each digit given by its value.
RECURSIVE IntOf(_)
IntOf(digits) ==
    IF digits = <<>> THEN 0
    ELSE 10 * IntOf(SubSeq(digits, 1, Len(digits) - 1)) + digits[Len(digits)]

\* The file name without the unconditional reassignment of line 136.
FileNameByScript(s) ==
    IF s = "uthmani" THEN <<"quran-", s, "-min.xml">>
    ELSE <<"quran-", s, "-clean.xml">>

\* The file name _load_data ends up with: the if/else assigns it, then it is
\* assigned again whatever the script is.
FileName(s) ==
    LET first == IF s = "uthmani" THEN <<"quran-", s, "-min.xml">>
                 ELSE <<"quran-", s, "-clean.xml">>
        second == <<"quran-", s, "-min.xml">>
    IN  second

\* aya_element == sura_element.find('aya') with elements compared by their
\* attributes instead of by identity.
IsFirstAyaByValue(sura_element, i) ==
    sura_element.ayas[i] = sura_element.ayas[1]

\* aya_element == sura_element.find('aya'): Element defines no __eq__, so
\* this is identity with the first <aya> child; the i-th element of
\* findall('aya') is that child exactly when i = 1.
IsFirstAya(sura_element, i) == i = 1

\* The inner for loop of _load_data over findall('aya')[i..].
RECURSIVE LoadAyas(_, _, _, _)
LoadAyas(sura_element, sura_number, i, ayahs_list) ==
    IF i > Len(sura_element.ayas)
    THEN ayahs_list
    ELSE LET aya_element == sura_element.ayas[i]
             ayah_number == IntOf(aya_element.index)
             ayah_text ==
                 IF "bismillah" \in DOMAIN aya_element
                    /\ IsFirstAya(sura_element, i)
                 THEN aya_element.bismillah \o <<SPACE>> \o aya_element.text
                 ELSE aya_element.text
         IN  LoadAyas(sura_element, sura_number, i + 1,
                      Append(ayahs_list,
                             Ayah(sura_number, ayah_number, ayah_text)))

\* d[key] = value: the entry for key is added or replaced.
DictSet(d, key, value) == (key :> value) @@ d

\* The outer for loop of _load_data over findall('sura')[i..].
RECURSIVE LoadSuras(_, _, _)
LoadSuras(root, i, d) ==
    IF i > Len(root)
    THEN d
    ELSE LET sura_element == root[i]
             sura_number == IntOf(sura_element.index)
             sura_name == sura_element.name
             ayahs_list == LoadAyas(sura_element, sura_number, 1, <<>>)
         IN  LoadSuras(root, i + 1,
                       DictSet(d, sura_number,
                               Surah(sura_number, sura_name, ayahs_list)))

\* A range test in the place of the dictionary lookup.
Quran_get_surah_by_range(d, surah_number) ==
    IF 1 <= surah_number /\ surah_number <= 114 /\ surah_number \in DOMAIN d
    THEN Return(d[surah_number])
    ELSE InvalidSurahNumberError(surah_number)

\* self._surahs.get(surah_number), None when the key is absent.
Quran_get_surah(d, surah_number) ==
    IF surah_number \in DOMAIN d
    THEN Return(d[surah_number])
    ELSE InvalidSurahNumberError(surah_number)

Quran_get_ayah(d, surah_number, ayah_number) ==
    LET surah == Quran_get_surah(d, surah_number) IN
    IF surah.exc # "none" THEN surah
    ELSE Surah_get_ayah(surah.value, ayah_number)

----------------------------------------------------------------------------
(* Inputs *)

Alphabet == {SPACE, TAB, WAW, FA, FATHA, ALEF_HAMZA_ABOVE}

TextsUpTo(n) == UNION {[1 .. k -> Alphabet] : k \in 0 .. n}

\* The raw text of the verse of the concrete tokenisation scenario.
SampleVerse ==
    <<1608, 1614, 1575, 1604, 1585, 1614, 1617, 1581, 1618, 1605, 1648, 1606,
      1616, 32, 1575, 1604, 1585, 1614, 1617, 1581, 1616, 1610, 1605, 1616>>

KwKeys == {"normalize", "remove_diacritics", "split_on_wa"}

\* Keyword arguments: any subset of the three options, each true or false.
Kwargs == UNION {[D -> BOOLEAN] : D \in SUBSET KwKeys}

Kw(n, r) == [normalize |-> n, remove_diacritics |-> r]
KwAll(n, r, s) == [normalize |-> n, remove_diacritics |-> r, split_on_wa |-> s]

----------------------------------------------------------------------------
(* Calls of the functions of processing.py on a text *)

QuranIdle ==
    /\ script = "uthmani" /\ xml = <<>> /\ file_name = <<>>
    /\ surahs = <<>> /\ pc = "idle"

QuranUnchanged == UNCHANGED <<script, xml, file_name, surahs, pc>>

InitText ==
    /\ text \in TextsUpTo(MaxLen)
    /\ ayah = NoAyah
    /\ QuranIdle
    /\ call = NoCall /\ ret = NoRet

CallRemoveDiacritics ==
    /\ pc = "idle" /\ ayah = NoAyah /\ call = NoCall
    /\ call' = <<"remove_diacritics">>
    /\ ret' = Return(remove_diacritics(text))
    /\ UNCHANGED <<text, ayah>> /\ QuranUnchanged

CallNormalizeArabic ==
    /\ pc = "idle" /\ ayah = NoAyah /\ call = NoCall
    /\ call' = <<"normalize_arabic">>
    /\ ret' = Return(normalize_arabic(text))
    /\ UNCHANGED <<text, ayah>> /\ QuranUnchanged

CallTokenize ==
    /\ pc = "idle" /\ ayah = NoAyah /\ call = NoCall
    /\ \E split_on_wa \in BOOLEAN :
        /\ call' = <<"tokenize", split_on_wa>>
        /\ ret' = Return(tokenize(text, split_on_wa))
    /\ UNCHANGED <<text, ayah>> /\ QuranUnchanged

NextText == CallRemoveDiacritics \/ CallNormalizeArabic \/ CallTokenize

SpecText == InitText /\ [][NextText]_vars

----------------------------------------------------------------------------
(* Calls of the methods of a stand-alone Ayah *)

InitAyah ==
    /\ text = <<>>
    /\ ayah \in {Ayah(1, 1, t) : t \in TextsUpTo(MaxRawLen) \cup {SampleVerse}}
    /\ QuranIdle
    /\ call = NoCall /\ ret = NoRet

AyahGetProcessedText ==
    /\ pc = "idle" /\ ayah # NoAyah /\ call = NoCall
    /\ \E kwargs \in Kwargs :
        /\ call' = <<"Ayah.get_processed_text", kwargs>>
        /\ ret' = get_processed_text_kw(ayah, kwargs)
    /\ UNCHANGED <<text, ayah>> /\ QuranUnchanged

AyahGetWords ==
    /\ pc = "idle" /\ ayah # NoAyah /\ call = NoCall
    /\ \E kwargs \in Kwargs :
        /\ call' = <<"Ayah.get_words", kwargs>>
        /\ ret' = Return(get_words(ayah, kwargs))
    /\ UNCHANGED <<text, ayah>> /\ QuranUnchanged

AyahWordCount ==
    /\ pc = "idle" /\ ayah # NoAyah /\ call = NoCall
    /\ \E kwargs \in Kwargs :
        /\ call' = <<"Ayah.word_count", kwargs>>
        /\ ret' = Return(word_count(ayah, kwargs))
    /\ UNCHANGED <<text, ayah>> /\ QuranUnchanged

AyahLetterCount ==
    /\ pc = "idle" /\ ayah # NoAyah /\ call = NoCall
    /\ \E kwargs \in Kwargs :
        /\ call' = <<"Ayah.letter_count", kwargs>>
        /\ ret' = letter_count(ayah, kwargs)
    /\ UNCHANGED <<text, ayah>> /\ QuranUnchanged

NextAyah ==
    AyahLetterCount \/ AyahWordCount \/ AyahGetWords \/ AyahGetProcessedText

SpecAyah == InitAyah /\ [][NextAyah]_vars

----------------------------------------------------------------------------
(* Construction of a Quran and the queries on it *)

Scripts == {"uthmani", "simple", "warsh"}

VerseTexts == {<<WAW, FATHA, ALEF_HAMZA_ABOVE>>, <<ALEF_HAMZA_ABOVE, SPACE, FA>>}
Phrases == {<<1576, 1587, 1605>>}

SeqsUpTo(S, n) == UNION {[1 .. k -> S] : k \in 0 .. n}

AyaIndexAttrs == {<<k>> : k \in 1 .. MaxAyas}
SuraIndexAttrs == {<<1>>, <<2>>, <<1, 1, 5>>}

\* <aya index=... text=.../> with or without a bismillah attribute.
AyaElements ==
    [index : AyaIndexAttrs, text : VerseTexts]
        \cup [index : AyaIndexAttrs, text : VerseTexts, bismillah : Phrases]

PlainAya == [index |-> <<1>>, text |-> <<ALEF_HAMZA_ABOVE, SPACE, FA>>]

\* Documents of several chapters of at most one verse, and documents of one
\* chapter of several verses.
WideDocs ==
    SeqsUpTo([index : SuraIndexAttrs, name : {"Al-Fatiha"},
              ayas : {<<>>, <<PlainAya>>}], MaxSuras)

DeepDocs ==
    {<<[index |-> <<1>>, name |-> "Al-Fatiha", ayas |-> ayas]>> :
        ayas \in SeqsUpTo(AyaElements, MaxAyas)}

Docs == WideDocs \cup DeepDocs

SurahNumbers == {0, 1, 2, 3, 114, 115, 116}
AyahNumbers == -1 .. MaxAyas + 1

Init ==
    /\ text = <<>> /\ ayah = NoAyah
    /\ script \in Scripts
    /\ xml \in Docs
    /\ file_name = <<>>
    /\ surahs = <<>>
    /\ pc = "new"
    /\ call = NoCall /\ ret = NoRet

\* Quran.__init__ with an unknown script.
ConstructBadScript ==
    /\ pc = "new"
    /\ script \notin {"uthmani", "simple"}
    /\ pc' = "failed"
    /\ call' = <<"Quran", script>>
    /\ ret' = Raise("ValueError",
                    <<"Script must be either 'uthmani' or 'simple'.">>)
    /\ UNCHANGED <<text, ayah, script, xml, file_name, surahs>>

\* Quran.__init__ and _load_data when the data file is not there.
ConstructNoFile ==
    /\ pc = "new"
    /\ script \in {"uthmani", "simple"}
    /\ file_name' = FileName(script)
    /\ pc' = "failed"
    /\ call' = <<"Quran", script>>
    /\ ret' = DataFileError(<<"data", FileName(script)>>)
    /\ UNCHANGED <<text, ayah, script, xml, surahs>>

\* Quran.__init__ and _load_data when the data file exists and holds xml.
ConstructLoad ==
    /\ pc = "new"
    /\ script \in {"uthmani", "simple"}
    /\ file_name' = FileName(script)
    /\ surahs' = LoadSuras(xml, 1, <<>>)
    /\ pc' = "ready"
    /\ call' = <<"Quran", script>>
    /\ ret' = NoRet
    /\ UNCHANGED <<text, ayah, script, xml>>

\* The queries assign no attribute of the Quran, of a Surah or of an Ayah.
\* A behaviour makes one query on the loaded collection: a later query would
\* start from the same collection.
Unchanged == UNCHANGED <<text, ayah, script, xml, file_name, surahs>>

QuranGetSurah ==
    /\ pc = "ready" /\ pc' = "queried"
    /\ \E n \in SurahNumbers :
        /\ call' = <<"Quran.get_surah", n>>
        /\ ret' = Quran_get_surah(surahs, n)
    /\ Unchanged

QuranGetAyah ==
    /\ pc = "ready" /\ pc' = "queried"
    /\ \E s \in SurahNumbers, n \in AyahNumbers :
        /\ call' = <<"Quran.get_ayah", s, n>>
        /\ ret' = Quran_get_ayah(surahs, s, n)
    /\ Unchanged

\* The methods of a Surah that get_surah returned.
SurahGetAyah ==
    /\ pc = "ready" /\ pc' = "queried"
    /\ \E s \in DOMAIN surahs, n \in AyahNumbers :
        /\ call' = <<"Surah.get_ayah", s, n>>
        /\ ret' = Surah_get_ayah(surahs[s], n)
    /\ Unchanged

SurahWordCount ==
    /\ pc = "ready" /\ pc' = "queried"
    /\ \E s \in DOMAIN surahs, kwargs \in Kwargs :
        /\ call' = <<"Surah.word_count", s, kwargs>>
        /\ ret' = Surah_word_count(surahs[s], kwargs)
    /\ Unchanged

SurahLetterCount ==
    /\ pc = "ready" /\ pc' = "queried"
    /\ \E s \in DOMAIN surahs, kwargs \in Kwargs :
        /\ call' = <<"Surah.letter_count", s, kwargs>>
        /\ ret' = Surah_letter_count(surahs[s], kwargs)
    /\ Unchanged

Next ==
    \/ ConstructBadScript
    \/ ConstructNoFile
    \/ ConstructLoad
    \/ QuranGetSurah
    \/ QuranGetAyah
    \/ SurahGetAyah
    \/ SurahWordCount
    \/ SurahLetterCount

Spec == Init /\ [][Next]_vars

----------------------------------------------------------------------------
(* Properties of tokenize *)

\* The token a conjunction is split off from, as the tokenizer contract words
\* it: longer than one character and starting with one of the two letters.
IsSplitToken(w) == Len(w) > 1 /\ (w[1] = WAW \/ w[1] = FA)

\* How many of the first n tokens of ws are split.
SplitsBefore(ws, n) == Cardinality({j \in 1 .. n : IsSplitToken(ws[j])})

\* C1: tokenize(text, True) is tokenize(text, False) with every token that is
\* longer than one character and starts with WAW or FA replaced in place by
\* two tokens, its first character and the remainder, and every other token
\* (a lone WAW or FA included) kept as it is, in the same order.
C1_SplitInPlace ==
    (call = <<"tokenize", TRUE>>) =>
        LET ws == tokenize(text, FALSE)
            ts == ret.value
        IN  /\ Len(ts) = Len(ws) + SplitsBefore(ws, Len(ws))
            /\ \A i \in 1 .. Len(ws) :
                LET at == i + SplitsBefore(ws, i - 1) IN
                IF IsSplitToken(ws[i])
                THEN /\ ts[at] = <<ws[i][1]>>
                     /\ ts[at + 1] = Tail(ws[i])
                ELSE ts[at] = ws[i]

\* A text with a lone conjunction letter and a word that starts with one.
C1_Witness ==
    /\ call = <<"tokenize", TRUE>>
    /\ \E i, j \in 1 .. Len(tokenize(text, FALSE)) :
        /\ IsSplitToken(tokenize(text, FALSE)[i])
        /\ tokenize(text, FALSE)[j] \in {<<WAW>>, <<FA>>}
    /\ Len(ret.value) = 3

RECURSIVE JoinWithSpaces(_)
JoinWithSpaces(ts) ==
    IF ts = <<>> THEN <<>>
    ELSE IF Len(ts) = 1 THEN ts[1]
    ELSE ts[1] \o <<SPACE>> \o JoinWithSpaces(Tail(ts))

\* t with every maximal run of whitespace replaced by one space.
RECURSIVE CollapseFrom(_, _)
CollapseFrom(t, i) ==
    IF i > Len(t) THEN <<>>
    ELSE IF ~IsSpace(t[i]) THEN <<t[i]>> \o CollapseFrom(t, i + 1)
    ELSE IF i > 1 /\ IsSpace(t[i - 1]) THEN CollapseFrom(t, i + 1)
    ELSE <<SPACE>> \o CollapseFrom(t, i + 1)

Collapse(t) == CollapseFrom(t, 1)

\* t without the whitespace at its two ends.
RECURSIVE Strip(_)
Strip(t) ==
    IF t = <<>> THEN t
    ELSE IF IsSpace(t[1]) THEN Strip(Tail(t))
    ELSE IF IsSpace(t[Len(t)]) THEN Strip(SubSeq(t, 1, Len(t) - 1))
    ELSE t

NoEmptyNoWhitespace(ts) ==
    \A i \in 1 .. Len(ts) :
        /\ ts[i] # <<>>
        /\ \A k \in 1 .. Len(ts[i]) : ~IsSpace(ts[i][k])

\* C2 as stated: the tokens of tokenize(text, False) are non-empty, hold no
\* whitespace, and joined with single spaces give text with its whitespace
\* runs collapsed, whatever whitespace text starts or ends with.
C2_JoinIsCollapsedText ==
    (call = <<"tokenize", FALSE>>) =>
        /\ NoEmptyNoWhitespace(ret.value)
        /\ JoinWithSpaces(ret.value) = Collapse(text)

\* C2 amended: the tokens of tokenize(text, False) are non-empty, hold no
\* whitespace, and joined with single spaces give text with its leading and
\* trailing whitespace removed and every other whitespace run collapsed to
\* one space.
C2_JoinIsStrippedCollapsedText ==
    (call = <<"tokenize", FALSE>>) =>
        /\ NoEmptyNoWhitespace(ret.value)
        /\ JoinWithSpaces(ret.value) = Strip(Collapse(text))

\* Two words, a repeated whitespace run between them or whitespace at an end.
C2_Witness ==
    /\ call = <<"tokenize", FALSE>>
    /\ Len(ret.value) = 2
    /\ Len(text) = MaxLen
    /\ IsSpace(text[1]) \/ IsSpace(text[Len(text)]) \/ Len(Collapse(text)) < Len(text)
    /\ \E k \in 1 .. Len(text) : text[k] = TAB

----------------------------------------------------------------------------
(* Properties of the Ayah methods *)

AyahMethods ==
    {"Ayah.get_processed_text", "Ayah.get_words", "Ayah.word_count",
     "Ayah.letter_count"}

\* C3: get_processed_text, get_words, word_count and letter_count accept the
\* same three options and return a value for every combination of them;
\* letter_count given split_on_wa returns the number of non-space characters
\* of the processed text.
C3_AllOptionsAccepted ==
    (call[1] \in AyahMethods) =>
        /\ ret.exc = "none"
        /\ (call[1] = "Ayah.letter_count" /\ "split_on_wa" \in DOMAIN call[2]) =>
            ret.value =
                Len(SelectSeq(
                    get_processed_text(ayah, KwGet(call[2], "normalize", TRUE),
                                       KwGet(call[2], "remove_diacritics", TRUE)),
                    LAMBDA c : c # SPACE))

ClaimedTokens ==
    <<<<1608>>, <<1575, 1604, 1585, 1581, 1605, 1575, 1606>>,
      <<1575, 1604, 1585, 1581, 1610, 1605>>>>

ActualTokens ==
    <<<<1608>>, <<1575, 1604, 1585, 1581, 1605, 1648, 1606>>,
      <<1575, 1604, 1585, 1581, 1610, 1605>>>>

SampleWordsCall ==
    /\ ayah.raw_text = SampleVerse
    /\ call[1] = "Ayah.get_words"
    /\ KwGet(call[2], "normalize", TRUE)
    /\ KwGet(call[2], "remove_diacritics", TRUE)
    /\ KwGet(call[2], "split_on_wa", FALSE)

\* C7 as stated: the sample verse, diacritics removed, normalized and split
\* on the conjunction, gives WAW, then the second word with a plain ALEF in
\* the place of its superscript alef (U+0670), then the third word.
C7_ClaimedTokens == SampleWordsCall => ret.value = ClaimedTokens

\* C7 amended: the sample verse, diacritics removed, normalized and split on
\* the conjunction, gives WAW, then the second word with its superscript alef
\* (U+0670) kept, then the third word.
C7_ActualTokens == SampleWordsCall => ret.value = ActualTokens

C7_Witness == SampleWordsCall /\ DOMAIN call[2] = KwKeys

BothTrue(kwargs) ==
    /\ DOMAIN kwargs \subseteq {"normalize", "remove_diacritics"}
    /\ KwGet(kwargs, "normalize", TRUE)
    /\ KwGet(kwargs, "remove_diacritics", TRUE)

SpacesOf(t) == Len(SelectSeq(t, LAMBDA c : c = SPACE))

\* C8: letter_count with normalize and remove_diacritics true is at most
\* letter_count with both false; removing diacritics only deletes characters
\* and never a space; normalization maps each character to one character and
\* never to or from a space.
C8_LetterCountShrinks ==
    /\ (call[1] = "Ayah.letter_count" /\ BothTrue(call[2])) =>
        ret.value <= letter_count(ayah, Kw(FALSE, FALSE)).value
    /\ (call = <<"Ayah.get_processed_text", Kw(FALSE, TRUE)>>) =>
        /\ Len(ret.value) <= Len(ayah.raw_text)
        /\ SpacesOf(ret.value) = SpacesOf(ayah.raw_text)
        /\ ret.value = SelectSeq(ayah.raw_text,
                                 LAMBDA c : c \notin ARABIC_DIACRITICS)
    /\ (call = <<"Ayah.get_processed_text", Kw(TRUE, FALSE)>>) =>
        /\ Len(ret.value) = Len(ayah.raw_text)
        /\ \A i \in 1 .. Len(ret.value) :
            (ret.value[i] = SPACE) <=> (ayah.raw_text[i] = SPACE)

\* A verse with a diacritic, a space and a letter, counted with both options.
C8_Witness ==
    /\ call[1] = "Ayah.letter_count" /\ BothTrue(call[2])
    /\ \E i, j \in 1 .. Len(ayah.raw_text) :
        /\ ayah.raw_text[i] \in ARABIC_DIACRITICS
        /\ ayah.raw_text[j] = SPACE
    /\ ret.value >= 1
    /\ ret.value < letter_count(ayah, Kw(FALSE, FALSE)).value

----------------------------------------------------------------------------
(* Properties of the loaded Quran *)

\* The highest chapter number the error message of get_surah names.
LastSurah == 114

Loaded == pc \in {"ready", "queried"}

\* The indices the <sura> elements of the document carry.
SuraIndices == {IntOf(xml[i].index) : i \in 1 .. Len(xml)}

\* The last <sura> element of the document with index k: the one whose
\* chapter the collection keeps.
SuraElementOf(k) ==
    xml[CHOOSE i \in 1 .. Len(xml) :
            /\ IntOf(xml[i].index) = k
            /\ \A j \in (i + 1) .. Len(xml) : IntOf(xml[j].index) # k]

\* C4: Surah.get_ayah(n) raises InvalidAyahNumberError, carrying the surah
\* number and n, exactly when n < 1 or n > len(ayahs), and otherwise returns
\* the ayah at 1-indexed position n; the ayah list is unchanged either way.
C4_GetAyahRange ==
    [][(pc = "ready" /\ call'[1] = "Surah.get_ayah") =>
        LET surah == surahs[call'[2]]
            n == call'[3]
        IN  /\ surahs' = surahs
            /\ IF n < 1 \/ n > Len(surah.ayahs)
               THEN /\ ret'.exc = "InvalidAyahNumberError"
                    /\ ret'.message[2] = n
                    /\ ret'.message[4] = surah.number
               ELSE ret' = Return(surah.ayahs[n])]_vars

C4_Witness ==
    /\ call[1] = "Surah.get_ayah"
    /\ Len(surahs[call[2]].ayahs) = MaxAyas
    /\ call[3] = 0
    /\ ret.exc = "InvalidAyahNumberError"

WellNumbered(k) ==
    \A i \in 1 .. Len(SuraElementOf(k).ayas) :
        IntOf(SuraElementOf(k).ayas[i].index) = i

ValidGetAyah ==
    /\ Loaded
    /\ call[1] = "Surah.get_ayah"
    /\ 1 <= call[3] /\ call[3] <= Len(surahs[call[2]].ayahs)

RoundTrip ==
    /\ ret.exc = "none"
    /\ ret.value.number = call[3]
    /\ Surah_get_ayah(surahs[call[2]], ret.value.number) = ret

C9_BismillahOnFirstOnly ==
    Loaded =>
        /\ SuraIndices \subseteq DOMAIN surahs
        /\ \A k \in DOMAIN surahs :
            LET ayas == SuraElementOf(k).ayas
                ayahs == surahs[k].ayahs
            IN  /\ Len(ayahs) = Len(ayas)
                /\ \A i \in 1 .. Len(ayas) :
                    /\ ayahs[i].number = IntOf(ayas[i].index)
                    /\ ayahs[i].surah_number = k
                    /\ ayahs[i].raw_text =
                        IF "bismillah" \in DOMAIN ayas[i] /\ i = 1
                        THEN ayas[i].bismillah \o <<SPACE>> \o ayas[i].text
                        ELSE ayas[i].text

\* Two equal <aya> elements with the attribute: only the first is prefixed.
C9_Witness ==
    /\ pc = "ready"
    /\ \E k \in DOMAIN surahs :
        LET ayas == SuraElementOf(k).ayas IN
        /\ Len(ayas) >= 2
        /\ "bismillah" \in DOMAIN ayas[1]
        /\ ayas[2] = ayas[1]
        /\ surahs[k].ayahs[1].raw_text # surahs[k].ayahs[2].raw_text
        /\ surahs[k].ayahs[2].raw_text = ayas[2].text

Constructed == pc # "new" /\ script \in {"uthmani", "simple"}

\* C10 as stated: whatever the script, the file looked for is the one of the
\* uthmani script.
C10_AlwaysUthmaniFile ==
    Constructed => file_name = <<"quran-", "uthmani", "-min.xml">>

\* C10 amended: whatever the script, the file looked for is
\* quran-<script>-min.xml: the -clean name computed for simple is never used,
\* and the file still differs with the script.
C10_AlwaysMinFile ==
    Constructed =>
        /\ file_name = <<"quran-", script, "-min.xml">>
        /\ script = "simple" =>
            /\ file_name # <<"quran-", "simple", "-clean.xml">>
            /\ file_name # <<"quran-", "uthmani", "-min.xml">>

C10_Witness ==
    /\ pc = "ready" /\ script = "simple"
    /\ file_name = <<"quran-", "simple", "-min.xml">>
    /\ surahs # <<>>

====
